---- MODULE Spec2Model ----
(***************************************************************************)
(* Data-Alchemist: the validation engine of src/lib/validate.ts and the    *)
(* application state of src/app/page.tsx with the components that change   *)
(* it.                                                                     *)
(*                                                                         *)
(* Cell values are JavaScript values: undefined, a number or a string.     *)
(* A string is a sequence of one-character strings, so that trim, split,   *)
(* toLowerCase, Number() and JSON.parse are computed character by          *)
(* character.  The operators are exact for strings over Alphabet.          *)
(***************************************************************************)
EXTENDS Integers, Sequences, FiniteSets, TLC

VARIABLES clients, workers, tasks, call, ret,
          errors, uploading, uploadedFile, uploadError, files, suggestions,
          modifying

\* The state of Home besides the tables, the files handleFileUpload has
\* still to read, the suggestions of AIErrorCorrection, and the loading
\* flag of NaturalLanguageDataModification with the tables its running
\* handleSubmit closed over.
appVars ==
  <<errors, uploading, uploadedFile, uploadError, files, suggestions, modifying>>

vars == <<clients, workers, tasks, call, ret, appVars>>

\* Largest number of rows of a table.
MaxRows == 2

-----------------------------------------------------------------------------
(* JavaScript values                                                       *)

Digits == {"0", "1", "2", "3", "4", "5", "6", "7", "8", "9"}

Alphabet ==
  Digits \cup {"-", " ", ",", "[", "]", "{", "}", "\"", ":",
               "a", "A", "m", "M", "l", "n", "u", "I", "f", "i", "t", "y"}

\* A JavaScript number: finite integer, NaN, Infinity or -Infinity.
Fin(n) == [k |-> "fin", v |-> n]
NaN == [k |-> "nan", v |-> 0]
PosInf == [k |-> "inf", v |-> 0]
NegInf == [k |-> "ninf", v |-> 0]

isNaN(x) == x.k = "nan"

\* a < b on JavaScript numbers (false when either is NaN).
NumLt(a, b) ==
  /\ ~isNaN(a)
  /\ ~isNaN(b)
  /\ \/ a.k = "ninf" /\ b.k # "ninf"
     \/ a.k = "fin" /\ b.k = "inf"
     \/ a.k = "fin" /\ b.k = "fin" /\ a.v < b.v

NumGt(a, b) == NumLt(b, a)

\* a <= b on JavaScript numbers (false when either is NaN).
NumLe(a, b) == ~isNaN(a) /\ ~isNaN(b) /\ ~NumLt(b, a)

\* a + b on JavaScript numbers.
NumAdd(a, b) ==
  IF isNaN(a) \/ isNaN(b) THEN NaN
  ELSE IF a.k = "fin" /\ b.k = "fin" THEN Fin(a.v + b.v)
  ELSE IF a.k = "fin" THEN b
  ELSE IF b.k = "fin" THEN a
  ELSE IF a.k = b.k THEN a
  ELSE NaN

\* Truthiness of a number: 0 and NaN are falsy.
NumTruthy(x) == ~isNaN(x) /\ ~(x.k = "fin" /\ x.v = 0)

\* Cell values.
Undefined == [t |-> "undefined", n |-> 0, s |-> <<>>]
JSNum(n) == [t |-> "number", n |-> n, s |-> <<>>]
JSStr(s) == [t |-> "string", n |-> 0, s |-> s]

\* Truthiness of a cell value: undefined, 0 and "" are falsy.
Truthy(v) ==
  CASE v.t = "undefined" -> FALSE
    [] v.t = "number" -> v.n # 0
    [] v.t = "string" -> v.s # <<>>

DigitVal(c) ==
  CASE c = "0" -> 0 [] c = "1" -> 1 [] c = "2" -> 2 [] c = "3" -> 3
    [] c = "4" -> 4 [] c = "5" -> 5 [] c = "6" -> 6 [] c = "7" -> 7
    [] c = "8" -> 8 [] c = "9" -> 9

DigitChar(d) ==
  CASE d = 0 -> "0" [] d = 1 -> "1" [] d = 2 -> "2" [] d = 3 -> "3"
    [] d = 4 -> "4" [] d = 5 -> "5" [] d = 6 -> "6" [] d = 7 -> "7"
    [] d = 8 -> "8" [] d = 9 -> "9"

RECURSIVE NatToStr(_)
NatToStr(n) ==
  IF n < 10 THEN <<DigitChar(n)>>
  ELSE NatToStr(n \div 10) \o <<DigitChar(n % 10)>>

\* Number.prototype.toString for an integer.
IntToStr(n) == IF n < 0 THEN <<"-">> \o NatToStr(0 - n) ELSE NatToStr(n)

RECURSIVE TrimStart(_)
TrimStart(s) ==
  IF s # <<>> /\ Head(s) = " " THEN TrimStart(Tail(s)) ELSE s

RECURSIVE TrimEnd(_)
TrimEnd(s) ==
  IF s # <<>> /\ s[Len(s)] = " " THEN TrimEnd(SubSeq(s, 1, Len(s) - 1)) ELSE s

\* String.prototype.trim
Trim(s) == TrimEnd(TrimStart(s))

LowerChar(c) ==
  CASE c = "A" -> "a" [] c = "M" -> "m" [] c = "I" -> "i" [] OTHER -> c

\* String.prototype.toLowerCase
toLowerCase(s) == [i \in 1..Len(s) |-> LowerChar(s[i])]

RECURSIVE DigitsToNat(_, _)
DigitsToNat(s, acc) ==
  IF s = <<>> THEN acc ELSE DigitsToNat(Tail(s), 10 * acc + DigitVal(Head(s)))

AllDigits(s) == s # <<>> /\ \A i \in 1..Len(s) : s[i] \in Digits

InfinityLit == <<"I", "n", "f", "i", "n", "i", "t", "y">>

\* Number(s) for a string: StringToNumber of the trimmed text.
StringToNumber(s) ==
  LET t == Trim(s)
      neg == t # <<>> /\ Head(t) = "-"
      body == IF neg THEN Tail(t) ELSE t
  IN  IF t = <<>> THEN Fin(0)
      ELSE IF body = InfinityLit THEN (IF neg THEN NegInf ELSE PosInf)
      ELSE IF AllDigits(body)
           THEN Fin(IF neg THEN 0 - DigitsToNat(body, 0) ELSE DigitsToNat(body, 0))
      ELSE NaN

\* Number(v) for a cell value.
Number(v) ==
  CASE v.t = "undefined" -> NaN
    [] v.t = "number" -> Fin(v.n)
    [] v.t = "string" -> StringToNumber(v.s)

\* v.toString() of a defined cell value.
toString(v) == IF v.t = "number" THEN IntToStr(v.n) ELSE v.s

-----------------------------------------------------------------------------
(* JSON.parse.  A parse result carries what the validators observe of the  *)
(* value: its type, String(value) (the property key the value coerces to), *)
(* and for an array the String() of each element.                          *)

ParseFail == [ok |-> FALSE, pos |-> 0, type |-> "", str |-> <<>>, items |-> <<>>]

ParseOk(p, ty, str, items) ==
  [ok |-> TRUE, pos |-> p, type |-> ty, str |-> str, items |-> items]

ObjectStr ==
  <<"[", "o", "b", "j", "e", "c", "t", " ", "O", "b", "j", "e", "c", "t", "]">>

NullLit == <<"n", "u", "l", "l">>

CharAt(s, i) == IF i >= 1 /\ i <= Len(s) THEN s[i] ELSE "EOF"

RECURSIVE SkipWs(_, _)
SkipWs(s, i) == IF CharAt(s, i) = " " THEN SkipWs(s, i + 1) ELSE i

RECURSIVE DigitsEnd(_, _)
\* First position at or after i that holds no digit.
DigitsEnd(s, i) == IF CharAt(s, i) \in Digits THEN DigitsEnd(s, i + 1) ELSE i

RECURSIVE QuoteAt(_, _)
\* Position of the first double quote at or after i, 0 if there is none.
QuoteAt(s, i) ==
  IF i > Len(s) THEN 0 ELSE IF s[i] = "\"" THEN i ELSE QuoteAt(s, i + 1)

\* number: -? (0 | [1-9][0-9]*)
ParseNumber(s, i) ==
  LET neg == CharAt(s, i) = "-"
      j == IF neg THEN i + 1 ELSE i
      e == IF CharAt(s, j) = "0" THEN j + 1 ELSE DigitsEnd(s, j)
      mag == DigitsToNat(SubSeq(s, j, e - 1), 0)
  IN  IF e = j THEN ParseFail
      ELSE ParseOk(e, "number", IntToStr(IF neg THEN 0 - mag ELSE mag), <<>>)

\* string: " chars " (the alphabet has no backslash and no control character)
ParseString(s, i) ==
  LET q == QuoteAt(s, i + 1)
  IN  IF CharAt(s, i) # "\"" \/ q = 0 THEN ParseFail
      ELSE ParseOk(q + 1, "string", SubSeq(s, i + 1, q - 1), <<>>)

\* Array.prototype.join(","): null elements join as the empty string.
JoinPiece(r) == IF r.type = "null" THEN <<>> ELSE r.str

RECURSIVE ParseValue(_, _)
RECURSIVE ParseElements(_, _, _, _)
RECURSIVE ParseMembers(_, _)

\* elements of an array after "[", the first element starting at i
ParseElements(s, i, items, joined) ==
  LET r == ParseValue(s, i)
      k == SkipWs(s, r.pos)
      items2 == Append(items, r.str)
      joined2 == IF items = <<>> THEN JoinPiece(r)
                 ELSE joined \o <<",">> \o JoinPiece(r)
  IN  IF ~r.ok THEN ParseFail
      ELSE IF CharAt(s, k) = "," THEN ParseElements(s, SkipWs(s, k + 1), items2, joined2)
      ELSE IF CharAt(s, k) = "]" THEN ParseOk(k + 1, "array", joined2, items2)
      ELSE ParseFail

\* members of an object after "{", the first key starting at i
ParseMembers(s, i) ==
  LET key == ParseString(s, i)
      c == SkipWs(s, key.pos)
      r == ParseValue(s, SkipWs(s, c + 1))
      k == SkipWs(s, r.pos)
  IN  IF ~key.ok \/ CharAt(s, c) # ":" THEN ParseFail
      ELSE IF ~r.ok THEN ParseFail
      ELSE IF CharAt(s, k) = "," THEN ParseMembers(s, SkipWs(s, k + 1))
      ELSE IF CharAt(s, k) = "}" THEN ParseOk(k + 1, "object", ObjectStr, <<>>)
      ELSE ParseFail

ParseValue(s, i) ==
  LET c == CharAt(s, i)
      j == SkipWs(s, i + 1)
  IN  CASE c = "[" ->
             IF CharAt(s, j) = "]" THEN ParseOk(j + 1, "array", <<>>, <<>>)
             ELSE ParseElements(s, j, <<>>, <<>>)
        [] c = "{" ->
             IF CharAt(s, j) = "}" THEN ParseOk(j + 1, "object", ObjectStr, <<>>)
             ELSE ParseMembers(s, j)
        [] c = "\"" -> ParseString(s, i)
        [] c = "n" ->
             IF i + 3 <= Len(s) /\ SubSeq(s, i, i + 3) = NullLit
             THEN ParseOk(i + 4, "null", NullLit, <<>>)
             ELSE ParseFail
        [] c = "-" \/ c \in Digits -> ParseNumber(s, i)
        [] OTHER -> ParseFail

\* JSON.parse of a text: one value, surrounded by optional white space.
ParseText(s) ==
  LET r == ParseValue(s, SkipWs(s, 1))
  IN  IF r.ok /\ SkipWs(s, r.pos) = Len(s) + 1 THEN r ELSE ParseFail

\* JSON.parse(v) of a cell value: the argument is converted to a string
\* first; "undefined" is no JSON text.  ok = FALSE stands for the thrown
\* SyntaxError.
JSONParse(v) == IF v.t = "undefined" THEN ParseFail ELSE ParseText(toString(v))

isArray(r) == r.type = "array"


-----------------------------------------------------------------------------
(* ValidationError and the per-entity validators                           *)

\* A message: its fixed text and the values interpolated into it.
Msg(text, phase, x, y) == [text |-> text, phase |-> phase, x |-> x, y |-> y]
PlainMsg(text) == Msg(text, <<>>, NaN, NaN)

ValidationError(table, row, field, message) ==
  [table |-> table, row |-> row, field |-> field, message |-> message]

\* What a call hands back: the returned error list, or a thrown exception.
Return(errs) == [threw |-> FALSE, errors |-> errs]
Throw == [threw |-> TRUE, errors |-> <<>>]

\* !rowId || rowId.toString().trim() === ""
idMissing(rowId) == ~Truthy(rowId) \/ Trim(toString(rowId)) = <<>>

\* rowId ?? idx
idOrIdx(rowId, idx) == IF rowId.t = "undefined" THEN JSNum(idx) ELSE rowId

\* The identity check shared by the three validators: the errors it pushes.
idErrors(table, field, rowId, idx, seenIDs, reqText, dupText) ==
  IF idMissing(rowId)
  THEN <<ValidationError(table, idOrIdx(rowId, idx), field, PlainMsg(reqText))>>
  ELSE IF rowId \in seenIDs
  THEN <<ValidationError(table, rowId, field, PlainMsg(dupText))>>
  ELSE <<>>

\* Variant of idSeen that forgets the seenIDs.add(rowId) of the else branch.
idSeenNeverAdds(rowId, seenIDs) == seenIDs

\* seenIDs after the identity check of one row.
idSeen(rowId, seenIDs) ==
  IF ~idMissing(rowId) /\ rowId \notin seenIDs THEN seenIDs \cup {rowId} ELSE seenIDs

\* Variant of newSeenIDs: one set at module level that the calls share, holding
\* the row keys the call before left behind.
seenIDsOfLastCall == {ret.errors[i].row : i \in 1..Len(ret.errors)}

\* const seenIDs = new Set(): made inside the validator, anew at every call.
newSeenIDs == {}

\* isNaN(priority) || priority < 1 || priority > 5
clientsDomainBad(priority) ==
  isNaN(priority) \/ NumLt(priority, Fin(1)) \/ NumGt(priority, Fin(5))

\* Variant of clientsFormatBad that also wants the parsed value to be an array.
clientsFormatBadUnlessArray(attrs) ==
  Truthy(attrs) /\ (~JSONParse(attrs).ok \/ ~isArray(JSONParse(attrs)))

\* if (row.AttributesJSON) { try { JSON.parse(...) } catch { push } }
clientsFormatBad(attrs) == Truthy(attrs) /\ ~JSONParse(attrs).ok

\* Variant of clientsRow that checks PriorityLevel before ClientID.
clientsRowDomainFirst(acc, row, idx) ==
  LET rowId == row.ClientID
      priority == Number(row.PriorityLevel)
      e1 == idErrors("clients", "ClientID", rowId, idx, acc.seenIDs,
                     "ClientID is required.", "Duplicate ClientID.")
      e2 == IF clientsDomainBad(priority)
            THEN <<ValidationError("clients", rowId, "PriorityLevel",
                                   PlainMsg("Priority must be between 1 and 5."))>>
            ELSE <<>>
      e3 == IF clientsFormatBad(row.AttributesJSON)
            THEN <<ValidationError("clients", rowId, "AttributesJSON",
                                   PlainMsg("Invalid JSON format."))>>
            ELSE <<>>
  IN  [errors |-> acc.errors \o e2 \o e1 \o e3, seenIDs |-> idSeen(rowId, acc.seenIDs)]

\* Body of the forEach callback of validateClients for one row.
clientsRow(acc, row, idx) ==
  LET rowId == row.ClientID
      priority == Number(row.PriorityLevel)
      e1 == idErrors("clients", "ClientID", rowId, idx, acc.seenIDs,
                     "ClientID is required.", "Duplicate ClientID.")
      e2 == IF clientsDomainBad(priority)
            THEN <<ValidationError("clients", rowId, "PriorityLevel",
                                   PlainMsg("Priority must be between 1 and 5."))>>
            ELSE <<>>
      e3 == IF clientsFormatBad(row.AttributesJSON)
            THEN <<ValidationError("clients", rowId, "AttributesJSON",
                                   PlainMsg("Invalid JSON format."))>>
            ELSE <<>>
  IN  [errors |-> acc.errors \o e1 \o e2 \o e3, seenIDs |-> idSeen(rowId, acc.seenIDs)]

RECURSIVE clientsLoop(_, _, _)
clientsLoop(rows, i, acc) ==
  IF i > Len(rows) THEN acc ELSE clientsLoop(rows, i + 1, clientsRow(acc, rows[i], i - 1))

validateClients(rows) ==
  Return(clientsLoop(rows, 1, [errors |-> <<>>, seenIDs |-> newSeenIDs]).errors)

\* isNaN(maxLoad) || maxLoad <= 0
workersDomainBad(maxLoad) == isNaN(maxLoad) \/ NumLe(maxLoad, Fin(0))

\* Variant of overloaded that compares with >= instead of >.
overloadedAtEqual(maxLoad, slots) ==
  ~isNaN(maxLoad) /\ ~NumLt(maxLoad, Fin(Len(slots.items)))

\* !isNaN(maxLoad) && maxLoad > slots.length
overloaded(maxLoad, slots) == ~isNaN(maxLoad) /\ NumGt(maxLoad, Fin(Len(slots.items)))

\* if (row.AvailableSlots) { try { parse; if (!Array.isArray) throw } catch { push } }
workersFormatBad(cell) == Truthy(cell) /\ (~JSONParse(cell).ok \/ ~isArray(JSONParse(cell)))

\* Variant of workersRow that returns from the callback once the identity check
\* has pushed an error.
workersRowStoppingAtIdentity(acc, row, idx) ==
  LET rowId == row.WorkerID
      maxLoad == Number(row.MaxLoadPerPhase)
      slots == JSONParse(row.AvailableSlots)
      e1 == idErrors("workers", "WorkerID", rowId, idx, acc.seenIDs,
                     "WorkerID is required.", "Duplicate WorkerID.")
      e2 == IF workersDomainBad(maxLoad)
            THEN <<ValidationError("workers", rowId, "MaxLoadPerPhase",
                                   PlainMsg("MaxLoad must be a number > 0."))>>
            ELSE <<>>
      e3 == IF ~Truthy(row.AvailableSlots) THEN <<>>
            ELSE IF workersFormatBad(row.AvailableSlots)
            THEN <<ValidationError("workers", rowId, "AvailableSlots",
                                   PlainMsg("Must be a valid JSON array."))>>
            ELSE IF overloaded(maxLoad, slots)
            THEN <<ValidationError("workers", rowId, "MaxLoadPerPhase",
                                   Msg("Worker is overloaded: maxLoad > available slots",
                                       <<>>, maxLoad, Fin(Len(slots.items))))>>
            ELSE <<>>
  IN  [errors |-> acc.errors \o (IF e1 # <<>> THEN e1 ELSE e2 \o e3), seenIDs |-> idSeen(rowId, acc.seenIDs)]

\* Body of the forEach callback of validateWorkers for one row.
workersRow(acc, row, idx) ==
  LET rowId == row.WorkerID
      maxLoad == Number(row.MaxLoadPerPhase)
      slots == JSONParse(row.AvailableSlots)
      e1 == idErrors("workers", "WorkerID", rowId, idx, acc.seenIDs,
                     "WorkerID is required.", "Duplicate WorkerID.")
      e2 == IF workersDomainBad(maxLoad)
            THEN <<ValidationError("workers", rowId, "MaxLoadPerPhase",
                                   PlainMsg("MaxLoad must be a number > 0."))>>
            ELSE <<>>
      e3 == IF ~Truthy(row.AvailableSlots) THEN <<>>
            ELSE IF workersFormatBad(row.AvailableSlots)
            THEN <<ValidationError("workers", rowId, "AvailableSlots",
                                   PlainMsg("Must be a valid JSON array."))>>
            ELSE IF overloaded(maxLoad, slots)
            THEN <<ValidationError("workers", rowId, "MaxLoadPerPhase",
                                   Msg("Worker is overloaded: maxLoad > available slots",
                                       <<>>, maxLoad, Fin(Len(slots.items))))>>
            ELSE <<>>
  IN  [errors |-> acc.errors \o e1 \o e2 \o e3, seenIDs |-> idSeen(rowId, acc.seenIDs)]

RECURSIVE workersLoop(_, _, _)
workersLoop(rows, i, acc) ==
  IF i > Len(rows) THEN acc ELSE workersLoop(rows, i + 1, workersRow(acc, rows[i], i - 1))

validateWorkers(rows) ==
  Return(workersLoop(rows, 1, [errors |-> <<>>, seenIDs |-> newSeenIDs]).errors)

\* isNaN(duration) || duration <= 0
tasksDomainBad(duration) == isNaN(duration) \/ NumLe(duration, Fin(0))

\* if (row.PreferredPhases) { try { parse; if (!Array.isArray) throw } catch { push } }
tasksFormatBad(cell) == Truthy(cell) /\ (~JSONParse(cell).ok \/ ~isArray(JSONParse(cell)))

\* Body of the forEach callback of validateTasks for one row.
tasksRow(acc, row, idx) ==
  LET rowId == row.TaskID
      duration == Number(row.Duration)
      e1 == idErrors("tasks", "TaskID", rowId, idx, acc.seenIDs,
                     "TaskID is required.", "Duplicate TaskID.")
      e2 == IF tasksDomainBad(duration)
            THEN <<ValidationError("tasks", rowId, "Duration",
                                   PlainMsg("Duration must be > 0."))>>
            ELSE <<>>
      e3 == IF tasksFormatBad(row.PreferredPhases)
            THEN <<ValidationError("tasks", rowId, "PreferredPhases",
                                   PlainMsg("Must be a JSON array."))>>
            ELSE <<>>
  IN  [errors |-> acc.errors \o e1 \o e2 \o e3, seenIDs |-> idSeen(rowId, acc.seenIDs)]

RECURSIVE tasksLoop(_, _, _)
tasksLoop(rows, i, acc) ==
  IF i > Len(rows) THEN acc ELSE tasksLoop(rows, i + 1, tasksRow(acc, rows[i], i - 1))

validateTasks(rows) ==
  Return(tasksLoop(rows, 1, [errors |-> <<>>, seenIDs |-> newSeenIDs]).errors)

-----------------------------------------------------------------------------
(* Cross-entity checks                                                     *)

\* A Record<string, number>: its entries <<key, value>> in insertion order.
ObjHas(obj, key) == \E i \in 1..Len(obj) : obj[i][1] = key

ObjGet(obj, key) == obj[CHOOSE i \in 1..Len(obj) : obj[i][1] = key][2]

\* obj[key] || 0 : a missing entry, 0 and NaN all give 0.
ObjGetOr0(obj, key) ==
  IF ObjHas(obj, key) /\ NumTruthy(ObjGet(obj, key)) THEN ObjGet(obj, key) ELSE Fin(0)

\* obj[key] = val
ObjSet(obj, key, val) ==
  IF ObjHas(obj, key)
  THEN [i \in 1..Len(obj) |-> IF obj[i][1] = key THEN <<key, val>> ELSE obj[i]]
  ELSE Append(obj, <<key, val>>)

\* A key that is a canonical array index ("0", "7", "12"; not "01").
isIndexKey(key) ==
  /\ AllDigits(key)
  /\ Len(key) = 1 \/ key[1] # "0"
  /\ Len(key) <= 9

RECURSIVE Ascending(_)
Ascending(S) ==
  IF S = {} THEN <<>>
  ELSE LET m == CHOOSE x \in S : \A y \in S : x <= y
       IN  <<m>> \o Ascending(S \ {m})

\* Object.keys(obj): index keys in ascending numeric order, then the other
\* keys in insertion order.
ObjectKeys(obj) ==
  LET idxVals == {DigitsToNat(obj[i][1], 0) : i \in {j \in 1..Len(obj) : isIndexKey(obj[j][1])}}
      asc == Ascending(idxVals)
      others == SelectSeq(obj, LAMBDA e : ~isIndexKey(e[1]))
  IN  [i \in 1..Len(asc) |-> NatToStr(asc[i])] \o [i \in 1..Len(others) |-> others[i][1]]

RECURSIVE addEach(_, _, _, _)
\* phases.forEach(phase => obj[phase] = (obj[phase] || 0) + amount)
addEach(obj, phases, i, amount) ==
  IF i > Len(phases) THEN obj
  ELSE addEach(ObjSet(obj, phases[i], NumAdd(ObjGetOr0(obj, phases[i]), amount)),
               phases, i + 1, amount)

RECURSIVE demandLoop(_, _, _)
\* tasks.forEach of validatePhaseSaturation
demandLoop(rows, i, phaseDemand) ==
  IF i > Len(rows) THEN phaseDemand
  ELSE LET task == rows[i]
           duration == Number(task.Duration)
           phases == JSONParse(task.PreferredPhases)
       IN  demandLoop(rows, i + 1,
             IF ~Truthy(task.PreferredPhases) THEN phaseDemand
             ELSE IF ~phases.ok \/ ~isArray(phases) THEN phaseDemand
             ELSE addEach(phaseDemand, phases.items, 1, duration))

RECURSIVE supplyLoop(_, _, _)
\* workers.forEach of validatePhaseSaturation
supplyLoop(rows, i, phaseSupply) ==
  IF i > Len(rows) THEN phaseSupply
  ELSE LET worker == rows[i]
           slots == JSONParse(worker.AvailableSlots)
       IN  supplyLoop(rows, i + 1,
             IF ~slots.ok \/ ~isArray(slots) THEN phaseSupply
             ELSE addEach(phaseSupply, slots.items, 1, Fin(1)))

phaseDemandOf(taskRows) == demandLoop(taskRows, 1, <<>>)
phaseSupplyOf(workerRows) == supplyLoop(workerRows, 1, <<>>)

\* Variant of overbooked that compares with >= instead of >.
overbookedAtEqual(demand, supply) == ~isNaN(demand) /\ ~NumLt(demand, supply)

\* demand > supply
overbooked(demand, supply) == NumGt(demand, supply)

RECURSIVE saturationLoop(_, _, _, _, _)
\* for (const phase of Object.keys(phaseDemand))
saturationLoop(keys, i, phaseDemand, phaseSupply, errs) ==
  IF i > Len(keys) THEN errs
  ELSE LET phase == keys[i]
           demand == ObjGet(phaseDemand, phase)
           supply == ObjGetOr0(phaseSupply, phase)
       IN  saturationLoop(keys, i + 1, phaseDemand, phaseSupply,
             IF overbooked(demand, supply)
             THEN Append(errs,
                    ValidationError("tasks", JSNum(-1), "PreferredPhases",
                                    Msg("Phase is overbooked: demand > supply",
                                        phase, demand, supply)))
             ELSE errs)

validatePhaseSaturation(taskRows, workerRows) ==
  LET phaseDemand == phaseDemandOf(taskRows)
      phaseSupply == phaseSupplyOf(workerRows)
  IN  Return(saturationLoop(ObjectKeys(phaseDemand), 1, phaseDemand, phaseSupply, <<>>))

RECURSIVE split(_, _)
\* String.prototype.split(sep) for a one-character separator
split(s, sep) ==
  IF \E i \in 1..Len(s) : s[i] = sep
  THEN LET p == CHOOSE i \in 1..Len(s) : s[i] = sep /\ \A j \in 1..(i - 1) : s[j] # sep
       IN  <<SubSeq(s, 1, p - 1)>> \o split(SubSeq(s, p + 1, Len(s)), sep)
  ELSE <<s>>

\* v?.split(",").map(s => s.trim().toLowerCase()) || []  where it does not throw
skillTokens(v) ==
  IF v.t = "undefined" THEN <<>>
  ELSE LET parts == split(v.s, ",")
       IN  [i \in 1..Len(parts) |-> toLowerCase(Trim(parts[i]))]

\* v?.split throws a TypeError when v is a number: numbers have no split.
splitThrows(v) == v.t = "number"

\* The set built by workers.forEach of validateSkillCoverage.
allWorkerSkillsOf(workerRows) ==
  UNION {{skillTokens(workerRows[i].Skills)[j] :
            j \in 1..Len(skillTokens(workerRows[i].Skills))} : i \in 1..Len(workerRows)}

RECURSIVE missingSkills(_, _, _, _)
\* requiredSkills.forEach of one task
missingSkills(task, requiredSkills, i, allWorkerSkills) ==
  IF i > Len(requiredSkills) THEN <<>>
  ELSE (IF requiredSkills[i] \notin allWorkerSkills
        THEN <<ValidationError("tasks", task.TaskID, "RequiredSkills",
                               Msg("Missing required skill: ", requiredSkills[i], NaN, NaN))>>
        ELSE <<>>)
       \o missingSkills(task, requiredSkills, i + 1, allWorkerSkills)

RECURSIVE coverageLoop(_, _, _)
\* tasks.forEach of validateSkillCoverage
coverageLoop(rows, i, allWorkerSkills) ==
  IF i > Len(rows) THEN <<>>
  ELSE missingSkills(rows[i], skillTokens(rows[i].RequiredSkills), 1, allWorkerSkills)
       \o coverageLoop(rows, i + 1, allWorkerSkills)

validateSkillCoverage(taskRows, workerRows) ==
  IF \/ \E i \in 1..Len(workerRows) : splitThrows(workerRows[i].Skills)
     \/ \E i \in 1..Len(taskRows) : splitThrows(taskRows[i].RequiredSkills)
  THEN Throw
  ELSE Return(coverageLoop(taskRows, 1, allWorkerSkillsOf(workerRows)))

-----------------------------------------------------------------------------
(* Input tables.  A table of n rows has one row drawn from the full row    *)
(* set of its kind, at any position, and its other rows drawn from a small *)
(* set; parseMultiSheetFile numbers the rows 0, 1, ... in the field id.    *)

Str0 == JSStr(<<>>)
StrBlank == JSStr(<<" ">>)
StrA == JSStr(<<"a">>)
StrInfinity == JSStr(InfinityLit)

IdValues == {Undefined, Str0, StrBlank, StrA, JSNum(0), JSNum(1)}

PriorityValues ==
  {Undefined, JSStr(<<"0">>), JSStr(<<"1">>), JSStr(<<"5">>), JSStr(<<"6">>),
   StrA, StrInfinity, JSNum(3)}

LoadValues ==
  {Undefined, JSStr(<<"0">>), JSStr(<<"-", "1">>), JSStr(<<"2">>), JSStr(<<"3">>),
   StrA, StrInfinity, JSNum(1)}

JsonValues ==
  {Undefined, Str0, StrBlank, StrA, JSNum(0), JSNum(5),
   JSStr(<<"5">>), JSStr(<<"n", "u", "l", "l">>), JSStr(<<"\"", "a", "\"">>),
   JSStr(<<"{", "}">>), JSStr(<<"{", "\"", "a", "\"", ":", "1", "}">>),
   JSStr(<<"{", "1", ",", "2", "}">>),
   JSStr(<<"[", "]">>), JSStr(<<"[", "1", ",", "2", "]">>), JSStr(<<"[", "1", ",", "]">>)}

Slots12 == JSStr(<<"[", "1", ",", "2", "]">>)

ClientRow(cid, prio, attrs) ==
  [id |-> 0, ClientID |-> cid, PriorityLevel |-> prio, AttributesJSON |-> attrs]

WorkerRow(wid, load, slots, skills) ==
  [id |-> 0, WorkerID |-> wid, MaxLoadPerPhase |-> load, AvailableSlots |-> slots,
   Skills |-> skills]

TaskRow(tid, dur, phases, skills) ==
  [id |-> 0, TaskID |-> tid, Duration |-> dur, PreferredPhases |-> phases,
   RequiredSkills |-> skills]

ClientFocus ==
  {ClientRow(i, p, Str0) : i \in IdValues, p \in PriorityValues}
  \cup {ClientRow(i, JSNum(3), a) : i \in {Undefined, Str0, StrA}, a \in JsonValues}

ClientFill ==
  {ClientRow(StrA, JSNum(3), Str0), ClientRow(JSNum(1), JSNum(3), Str0),
   ClientRow(StrBlank, JSNum(3), Str0), ClientRow(Undefined, JSStr(<<"6">>), Str0)}

WorkerFocus ==
  {WorkerRow(i, l, Slots12, Str0) : i \in IdValues, l \in LoadValues}
  \cup {WorkerRow(i, l, a, Str0) : i \in {Undefined, StrA},
                                   l \in {JSStr(<<"2">>), JSStr(<<"3">>), StrA}, a \in JsonValues}

WorkerFill ==
  {WorkerRow(StrA, JSNum(1), Slots12, Str0), WorkerRow(JSNum(1), JSNum(1), Slots12, Str0),
   WorkerRow(StrBlank, JSNum(1), Slots12, Str0), WorkerRow(Undefined, JSStr(<<"3">>), Slots12, Str0)}

TaskFocus ==
  {TaskRow(i, d, Str0, Str0) : i \in IdValues, d \in LoadValues}
  \cup {TaskRow(i, d, a, Str0) : i \in {Undefined, Str0, StrA},
                                 d \in {JSStr(<<"2">>), StrA}, a \in JsonValues}

TaskFill ==
  {TaskRow(StrA, JSNum(1), Str0, Str0), TaskRow(JSNum(1), JSNum(1), Str0, Str0),
   TaskRow(StrBlank, JSNum(1), Str0, Str0), TaskRow(Undefined, JSStr(<<"0">>), Str0, Str0)}

\* json.map((row, i) => ({ id: i, ...row }))
numbered(rows) == [i \in 1..Len(rows) |-> [rows[i] EXCEPT !.id = i - 1]]

\* A table of rows t with the row f put at position p (p = 0: t as it is).
focusTable(t, p, f) == numbered(IF p = 0 THEN t ELSE [t EXCEPT ![p] = f])

\* rows is a table of at most MaxRows rows with one row of Focus among rows of Fill.
IsTable(rows, Focus, Fill) ==
  \E n \in 0..MaxRows : \E t \in [1..n -> Fill] : \E p \in 0..n :
    \E f \in (IF p = 0 THEN {CHOOSE x \in Focus : TRUE} ELSE Focus) :
      rows = focusTable(t, p, f)

\* Rows for the phase saturation check: Duration and PreferredPhases vary.
Phases1 == JSStr(<<"[", "1", "]">>)
Phases11 == JSStr(<<"[", "1", ",", "1", "]">>)
Phases21 == JSStr(<<"[", "2", ",", "1", "]">>)
PhasesA1 == JSStr(<<"[", "\"", "a", "\"", ",", "1", "]">>)

SatTaskFocus ==
  {TaskRow(StrA, d, ph, Undefined) :
     d \in {JSStr(<<"1">>), JSStr(<<"3">>)}, ph \in {Phases1, Phases11, Phases21, PhasesA1}}
  \cup {TaskRow(StrA, StrA, Phases1, Undefined), TaskRow(StrA, JSNum(1), Str0, Undefined),
        TaskRow(StrA, JSNum(1), JSStr(<<"5">>), Undefined),
        TaskRow(StrA, JSNum(2), Undefined, Undefined)}

SatTaskFill == {TaskRow(StrA, JSNum(1), Phases1, Undefined)}

SatWorkerFocus ==
  {WorkerRow(StrA, JSNum(1), sl, Undefined) :
     sl \in {Undefined, Str0, Phases1, Phases11, Phases21, JSStr(<<"{", "}">>), JSNum(1)}}

SatWorkerFill == {WorkerRow(StrA, JSNum(1), Phases1, Undefined)}

\* Rows for the skill coverage check: Skills and RequiredSkills vary.
SkillTexts ==
  {Undefined, Str0, StrA, JSStr(<<" ", "A">>), JSStr(<<"m", ",", "a">>),
   JSStr(<<"a", ",", " ", "M", " ">>), JSStr(<<"a", ",", "a">>), JSStr(<<"m", ",">>),
   JSNum(5)}

CovTaskFocus == {TaskRow(StrA, JSNum(1), Str0, sk) : sk \in SkillTexts}
CovTaskFill == {TaskRow(StrA, JSNum(1), Str0, JSStr(<<"m", ",", "a">>))}
CovWorkerFocus == {WorkerRow(StrA, JSNum(1), Slots12, sk) : sk \in SkillTexts}
CovWorkerFill == {WorkerRow(StrA, JSNum(1), Slots12, StrA)}

\* Each row of a cross-entity table gets its own identifier, t0, t1, ...
taskIds(rows) == [i \in 1..Len(rows) |-> [rows[i] EXCEPT !.TaskID = JSStr(<<"t">> \o NatToStr(i - 1))]]
workerIds(rows) == [i \in 1..Len(rows) |-> [rows[i] EXCEPT !.WorkerID = JSStr(<<"n">> \o NatToStr(i - 1))]]

-----------------------------------------------------------------------------
(* The state machine: the tables are the inputs, call and ret record the   *)
(* last validator call and what it handed back.                            *)

NoCall == "none"

\* rows.forEach((row, idx) => ...), tasks.forEach, workers.forEach: the
\* callbacks of the validators read the fields of a row and assign none,
\* and nothing sorts or splices the array: the array after the loop.
afterForEachReversed(rows) == [i \in 1..Len(rows) |-> rows[Len(rows) + 1 - i]]

afterForEach(rows) == rows

\* NaturalLanguageDataModification with no handleSubmit under way.
NotModifying ==
  [loading |-> FALSE, error |-> "", clients |-> <<>>, workers |-> <<>>, tasks |-> <<>>]

\* useState initial values of Home and its components; null is "".
appInitial ==
  /\ errors = <<>>
  /\ uploading = FALSE
  /\ uploadedFile = ""
  /\ uploadError = ""
  /\ files = <<>>
  /\ suggestions = <<>>
  /\ modifying = NotModifying

Init ==
  /\ call = NoCall
  /\ ret = Return(<<>>)
  /\ appInitial
  /\ \/ /\ IsTable(clients, ClientFocus, ClientFill)
        /\ workers = <<>>
        /\ tasks = <<>>
     \/ /\ clients = <<>>
        /\ IsTable(workers, WorkerFocus, WorkerFill)
        /\ tasks = <<>>
     \/ /\ clients = <<>>
        /\ workers = <<>>
        /\ IsTable(tasks, TaskFocus, TaskFill)
     \/ /\ clients = <<>>
        /\ \E n \in 0..MaxRows : \E t \in [1..n -> SatWorkerFill] : \E p \in 0..n :
             \E f \in (IF p = 0 THEN SatWorkerFill ELSE SatWorkerFocus) :
               workers = workerIds(focusTable(t, p, f))
        /\ \E n \in 0..MaxRows : \E t \in [1..n -> SatTaskFill] : \E p \in 0..n :
             \E f \in (IF p = 0 THEN SatTaskFill ELSE SatTaskFocus) :
               tasks = taskIds(focusTable(t, p, f))
     \/ /\ clients = <<>>
        /\ \E n \in 0..MaxRows : \E t \in [1..n -> CovWorkerFill] : \E p \in 0..n :
             \E f \in (IF p = 0 THEN CovWorkerFill ELSE CovWorkerFocus) :
               workers = workerIds(focusTable(t, p, f))
        /\ \E n \in 0..MaxRows : \E t \in [1..n -> CovTaskFill] : \E p \in 0..n :
             \E f \in (IF p = 0 THEN CovTaskFill ELSE CovTaskFocus) :
               tasks = taskIds(focusTable(t, p, f))

CallValidateClients ==
  /\ call' = "validateClients"
  /\ ret' = validateClients(clients)
  /\ clients' = afterForEach(clients)
  /\ UNCHANGED <<workers, tasks, appVars>>

CallValidateWorkers ==
  /\ call' = "validateWorkers"
  /\ ret' = validateWorkers(workers)
  /\ workers' = afterForEach(workers)
  /\ UNCHANGED <<clients, tasks, appVars>>

CallValidateTasks ==
  /\ call' = "validateTasks"
  /\ ret' = validateTasks(tasks)
  /\ tasks' = afterForEach(tasks)
  /\ UNCHANGED <<clients, workers, appVars>>

CallValidatePhaseSaturation ==
  /\ call' = "validatePhaseSaturation"
  /\ ret' = validatePhaseSaturation(tasks, workers)
  /\ workers' = afterForEach(workers)
  /\ tasks' = afterForEach(tasks)
  /\ UNCHANGED <<clients, appVars>>

CallValidateSkillCoverage ==
  /\ call' = "validateSkillCoverage"
  /\ ret' = validateSkillCoverage(tasks, workers)
  /\ workers' = afterForEach(workers)
  /\ tasks' = afterForEach(tasks)
  /\ UNCHANGED <<clients, appVars>>

Next ==
  \/ CallValidateClients
  \/ CallValidateWorkers
  \/ CallValidateTasks
  \/ CallValidatePhaseSaturation
  \/ CallValidateSkillCoverage

Spec == Init /\ [][Next]_vars

-----------------------------------------------------------------------------
(* A second run of the validators, RowSpec: the same calls on tables whose *)
(* rows fail several checks at once, the identity check, the numeric check *)
(* and the structural check in every combination.                          *)

NotJson == JSStr(<<"{", "1", ",", "2", "}">>)

ClientMulti ==
  {ClientRow(i, p, a) : i \in {Str0, StrA}, p \in {JSNum(0), JSNum(3)}, a \in {Str0, NotJson}}

WorkerMulti ==
  {WorkerRow(i, l, sl, StrA) : i \in {Str0, StrA}, l \in {JSNum(0), JSNum(1), JSNum(3)},
                               sl \in {Slots12, NotJson}}

TaskMulti ==
  {TaskRow(i, d, ph, StrA) : i \in {Str0, StrA}, d \in {JSNum(0), JSNum(1)},
                             ph \in {Phases1, NotJson}}

\* rows is a table of at most MaxRows rows of Rows.
IsTableOf(rows, Rows) == \E n \in 0..MaxRows : \E t \in [1..n -> Rows] : rows = numbered(t)

RowInit ==
  /\ call = NoCall
  /\ ret = Return(<<>>)
  /\ appInitial
  /\ \/ /\ IsTableOf(clients, ClientMulti)
        /\ workers = <<>>
        /\ tasks = <<>>
     \/ /\ clients = <<>>
        /\ IsTableOf(workers, WorkerMulti)
        /\ tasks = <<>>
     \/ /\ clients = <<>>
        /\ workers = <<>>
        /\ IsTableOf(tasks, TaskMulti)

RowSpec == RowInit /\ [][Next]_vars

-----------------------------------------------------------------------------
(* The application: Home (page.tsx) holds the tables and the errors, and   *)
(* hands them to FileUploader, EditableTable, AIErrorCorrection,           *)
(* NaturalLanguageDataModification and ExportButtons.  null is the empty   *)
(* string; of the texts the components display, the upload error and the   *)
(* error of NaturalLanguageDataModification are kept.                      *)

\* Largest number of files of one upload.
MaxFiles == 2

\* Largest number of fixes Gemini suggests at once.
MaxSuggestions == 2

\* Longest errors list the uploads are followed to.
MaxErrors == 3

\* row[k]: undefined when the row has no such field.
rowGet(row, k) == IF k \in DOMAIN row THEN row[k] ELSE Undefined

\* a == b (loose equality) on cell values: a number and a string compare
\* as numbers, undefined equals only undefined (and null).
looseEq(a, b) ==
  CASE a.t = b.t -> a = b
    [] a.t = "number" /\ b.t = "string" -> StringToNumber(b.s) = Fin(a.n)
    [] a.t = "string" /\ b.t = "number" -> StringToNumber(a.s) = Fin(b.n)
    [] OTHER -> FALSE

\* Object.entries(filter).every(([k, v]) => row[k] == v)
matches(row, filter) ==
  \A i \in 1..Len(filter) : looseEq(rowGet(row, filter[i][1]), filter[i][2])

RECURSIVE spread(_, _, _)
\* { ...row, ...update }: the entries of update from the i-th on laid over row
spread(row, update, i) ==
  IF i > Len(update) THEN row
  ELSE spread([k \in DOMAIN row \cup {update[i][1]} |->
                 IF k = update[i][1] THEN update[i][2] ELSE row[k]], update, i + 1)

\* rows.map(row => match ? { ...row, ...update } : row)
modified(rows, mod) ==
  [i \in 1..Len(rows) |->
     IF matches(rows[i], mod.filter) THEN spread(rows[i], mod.update, 1) ELSE rows[i]]

\* rows.map(r => r.id === id ? { ...r, [field]: value } : r)
updated(rows, id, field, value) ==
  [i \in 1..Len(rows) |->
     IF rows[i].id = id THEN spread(rows[i], <<<<field, value>>>>, 1) ELSE rows[i]]

otherErrorsKeepingAll(errs, table) == errs

\* errors.filter(e => e.table !== table)
otherErrors(errs, table) == SelectSeq(errs, LAMBDA e : e.table # table)

\* const dataLoaded = clients.length > 0 || workers.length > 0 || tasks.length > 0
dataLoaded == Len(clients) > 0 \/ Len(workers) > 0 \/ Len(tasks) > 0

\* ExportButtons: hasErrors, disabled, and a button that is rendered and
\* not disabled.
hasErrors == Len(errors) > 0

disabledWithoutData == ~dataLoaded

disabled == ~dataLoaded \/ hasErrors

rowsOf(table) ==
  CASE table = "clients" -> clients
    [] table = "workers" -> workers
    [] table = "tasks" -> tasks

exportEnabled(table) == Len(rowsOf(table)) > 0 /\ ~disabled

-----------------------------------------------------------------------------

(* Inputs of the application: workbooks, edits and Gemini's answers        *)

StrM == JSStr(<<"m">>)

ClientsGood == numbered(<<ClientRow(StrA, JSNum(1), Str0)>>)
ClientsBad == numbered(<<ClientRow(StrA, JSNum(0), Str0), ClientRow(StrM, JSNum(2), Str0)>>)
WorkersGood == numbered(<<WorkerRow(StrA, JSNum(1), Slots12, StrA)>>)
\* Valid row by row, but phase 1 is asked for 5 and offered 1, and no
\* worker has the skill m.
TasksHeavy == numbered(<<TaskRow(StrA, JSNum(5), Phases1, StrM)>>)

\* What parseMultiSheetFile resolves to (has: the sheets of the workbook),
\* or its rejection.
SheetData(has, c, w, t) ==
  [name |-> "data.xlsx", ok |-> TRUE, has |-> has, clients |-> c, workers |-> w, tasks |-> t]

Unreadable ==
  [name |-> "data.xlsx", ok |-> FALSE, has |-> {}, clients |-> <<>>, workers |-> <<>>,
   tasks |-> <<>>]

AllSheets == {"clients", "workers", "tasks"}

\* A workbook with a clients sheet only, and one with the three sheets.
ClientsOnly == SheetData({"clients"}, ClientsBad, <<>>, <<>>)
Workbook == SheetData(AllSheets, ClientsGood, WorkersGood, TasksHeavy)

\* The FileLists handed to handleFileUpload.
Uploads ==
  {<<ClientsOnly>>, <<Workbook>>, <<Unreadable>>, <<ClientsOnly, Workbook>>,
   <<ClientsOnly, Unreadable>>, <<Unreadable, ClientsOnly, Workbook>>}

\* The cells the grid edits, with the values typed in.
Edits ==
  {<<"clients", "PriorityLevel", JSNum(1)>>, <<"workers", "MaxLoadPerPhase", JSNum(1)>>,
   <<"tasks", "Duration", JSNum(0)>>}

\* { table, filter, update } objects, as AIErrorCorrection and
\* NaturalLanguageDataModification read them off Gemini's answer.
Modification(table, filter, update) == [table |-> table, filter |-> filter, update |-> update]

Modifications ==
  {Modification("clients", <<<<"ClientID", StrA>>>>, <<<<"PriorityLevel", JSNum(1)>>>>)}

\* The lists of fixes AIErrorCorrection reads off Gemini's answer: the fix
\* of client a, alone or with a fix that sets the same cell to 0.
Undo == Modification("clients", <<<<"ClientID", StrA>>>>, <<<<"PriorityLevel", JSNum(0)>>>>)

Answers ==
  LET fix == CHOOSE mod \in Modifications : TRUE
  IN  {<<>>, <<fix>>, <<fix, Undo>>, <<Undo, fix>>, <<fix, Undo, fix>>}

-----------------------------------------------------------------------------
(* The application's handlers                                              *)

AppInit ==
  /\ clients = <<>>
  /\ workers = <<>>
  /\ tasks = <<>>
  /\ call = NoCall
  /\ ret = Return(<<>>)
  /\ appInitial

\* handleFileUpload up to its first await.  FileUploader renders the input
\* only while no file is uploaded and disables it while uploading.
HandleFileUpload ==
  /\ uploadedFile = ""
  /\ ~uploading
  /\ \E fs \in Uploads :
       /\ Len(fs) <= MaxFiles
       /\ files' = fs
       /\ uploadedFile' = fs[1].name
  /\ uploading' = TRUE
  /\ uploadError' = ""
  /\ UNCHANGED <<clients, workers, tasks, call, ret, errors, suggestions, modifying>>

\* The errors the body of the for loop appends for one workbook.
sheetErrors(sheetData) ==
  (IF "clients" \in sheetData.has THEN validateClients(sheetData.clients).errors ELSE <<>>)
  \o (IF "workers" \in sheetData.has THEN validateWorkers(sheetData.workers).errors ELSE <<>>)
  \o (IF "tasks" \in sheetData.has THEN validateTasks(sheetData.tasks).errors ELSE <<>>)

\* handleFileUpload resumed with a parsed workbook: one round of the for
\* loop, and after the last file the finally block.
FileParsed ==
  /\ uploading
  /\ files # <<>>
  /\ Head(files).ok
  /\ LET sheetData == Head(files)
     IN  /\ clients' = IF "clients" \in sheetData.has THEN sheetData.clients ELSE clients
         /\ workers' = IF "workers" \in sheetData.has THEN sheetData.workers ELSE workers
         /\ tasks' = IF "tasks" \in sheetData.has THEN sheetData.tasks ELSE tasks
         /\ errors' = errors \o sheetErrors(sheetData)
         /\ Len(errors') <= MaxErrors
  /\ files' = Tail(files)
  /\ uploading' = (Tail(files) # <<>>)
  /\ UNCHANGED <<call, ret, uploadedFile, uploadError, suggestions, modifying>>

\* handleFileUpload resumed with a rejection: the catch and finally blocks.
FileRejected ==
  /\ uploading
  /\ files # <<>>
  /\ ~Head(files).ok
  /\ uploadError' = "Failed to read file. Please upload a valid Excel or CSV file."
  /\ uploadedFile' = ""
  /\ clients' = <<>>
  /\ workers' = <<>>
  /\ tasks' = <<>>
  /\ files' = <<>>
  /\ uploading' = FALSE
  /\ UNCHANGED <<call, ret, errors, suggestions, modifying>>

\* Variant of handleRemoveFile without its setErrors([]).
HandleRemoveFileKeepingErrors ==
  /\ uploadedFile # ""
  /\ ~uploading
  /\ uploadedFile' = ""
  /\ uploadError' = ""
  /\ clients' = <<>>
  /\ workers' = <<>>
  /\ tasks' = <<>>
  /\ UNCHANGED <<call, ret, errors, uploading, files, suggestions, modifying>>

\* handleRemoveFile; the button is rendered when uploadedFile && !uploading.
HandleRemoveFile ==
  /\ uploadedFile # ""
  /\ ~uploading
  /\ uploadedFile' = ""
  /\ uploadError' = ""
  /\ clients' = <<>>
  /\ workers' = <<>>
  /\ tasks' = <<>>
  /\ errors' = <<>>
  /\ UNCHANGED <<call, ret, uploading, files, suggestions, modifying>>

\* The validator updateRow and applyFix pair with a table.
validator(table, rows) ==
  CASE table = "clients" -> validateClients(rows)
    [] table = "workers" -> validateWorkers(rows)
    [] table = "tasks" -> validateTasks(rows)

\* updateRow(table, id, field, value)
updateRow(table, id, field, value) ==
  /\ UNCHANGED <<call, ret, uploading, uploadedFile, uploadError, files, suggestions, modifying>>
  /\ clients' = IF table = "clients" THEN updated(clients, id, field, value) ELSE clients
  /\ workers' = IF table = "workers" THEN updated(workers, id, field, value) ELSE workers
  /\ tasks' = IF table = "tasks" THEN updated(tasks, id, field, value) ELSE tasks
  /\ errors' = otherErrors(errors, table)
                 \o validator(table, updated(rowsOf(table), id, field, value)).errors

\* The grid of a table that is shown (it has rows) commits an edit: it
\* calls updateRow with the positional id of the edited row.
UpdateRow ==
  \E edit \in Edits : \E i \in 1..Len(rowsOf(edit[1])) :
    updateRow(edit[1], rowsOf(edit[1])[i].id, edit[2], edit[3])

\* handleSubmit of NaturalLanguageDataModification up to its await: the
\* tables it will map over are those of the render it was created in.
HandleSubmit ==
  /\ ~modifying.loading
  /\ dataLoaded
  /\ modifying' = [loading |-> TRUE, error |-> "", clients |-> clients, workers |-> workers,
                   tasks |-> tasks]
  /\ UNCHANGED <<clients, workers, tasks, call, ret, errors, uploading, uploadedFile,
                 uploadError, files, suggestions>>

\* handleSubmit resumed with a modification object: one setter is called,
\* no validator is.
ModificationReturned ==
  /\ modifying.loading
  /\ \E mod \in Modifications :
       /\ clients' = IF mod.table = "clients" THEN modified(modifying.clients, mod) ELSE clients
       /\ workers' = IF mod.table = "workers" THEN modified(modifying.workers, mod) ELSE workers
       /\ tasks' = IF mod.table = "tasks" THEN modified(modifying.tasks, mod) ELSE tasks
  /\ modifying' = NotModifying
  /\ UNCHANGED <<call, ret, errors, uploading, uploadedFile, uploadError, files, suggestions>>

\* What the request of generateFromGemini comes to when it brings no answer
\* text: fetch or res.json() throws, the status is not ok, or the body
\* holds no text.  (An answer with text is the case of ModificationReturned.)
Requests == {"exception", "http error", "no text"}

\* A Promise<string> settled: resolved to a text, or rejected with an Error.
Resolved(text) == [resolved |-> TRUE, text |-> text, message |-> ""]
Rejected(message) == [resolved |-> FALSE, text |-> <<>>, message |-> message]

\* The two fixed texts of generateFromGemini; the sign each begins with is
\* written X and ! here.
GeminiFailed ==
  <<"X", " ", "G", "e", "m", "i", "n", "i", " ", "A", "P", "I", " ", "f",
    "a", "i", "l", "e", "d", ".">>

NoMeaningfulResponse ==
  <<"!", " ", "N", "o", " ", "m", "e", "a", "n", "i", "n", "g", "f", "u",
    "l", " ", "r", "e", "s", "p", "o", "n", "s", "e", " ", "r", "e", "c",
    "e", "i", "v", "e", "d", " ", "f", "r", "o", "m", " ", "G", "e", "m",
    "i", "n", "i", ".">>

\* Variant of generateFromGemini without its catch block: the error of a
\* failed request rejects the promise.
generateFromGeminiRejecting(request) ==
  IF request = "no text" THEN Resolved(NoMeaningfulResponse)
  ELSE Rejected("Gemini API error")

\* try { fetch; if (!res.ok) throw; return text ?? "... No meaningful ..." }
\* catch { return "... Gemini API failed." }
generateFromGemini(request) ==
  IF request = "no text" THEN Resolved(NoMeaningfulResponse)
  ELSE Resolved(GeminiFailed)

\* response.match(/\{[\s\S]*\}/) is not null: a { with a } somewhere after it
matchObject(response) ==
  \E i, j \in 1..Len(response) : i < j /\ response[i] = "{" /\ response[j] = "}"

\* handleSubmit resumed by a request that brought no answer text: the text
\* holds no JSON object (or the await throws), so the catch block sets the
\* error and the finally block ends the loading; no setter of a table runs.
handleSubmitCaught(request) ==
  LET response == generateFromGemini(request)
  IN  /\ modifying.loading
      /\ response.resolved => ~matchObject(response.text)
      /\ modifying' =
           [NotModifying EXCEPT
              !.error = IF response.resolved THEN "No JSON object found in Gemini response."
                        ELSE response.message]
      /\ UNCHANGED <<clients, workers, tasks, call, ret, errors, uploading, uploadedFile,
                     uploadError, files, suggestions>>

ModificationFailed == \E request \in Requests : handleSubmitCaught(request)

\* fetchSuggestions with an answer it can read: setSuggestions(filteredFixes).
FetchSuggestions ==
  /\ dataLoaded
  /\ \E fixes \in Answers :
       /\ Len(fixes) <= MaxSuggestions
       /\ suggestions' = fixes
  /\ UNCHANGED <<clients, workers, tasks, call, ret, errors, uploading, uploadedFile,
                 uploadError, files, modifying>>

\* prev.filter(f => f !== fix) for the fix at position i
without(fixes, i) == SubSeq(fixes, 1, i - 1) \o SubSeq(fixes, i + 1, Len(fixes))

\* applyFix(fix) for the fix at position i of the suggestions: the errors
\* become the output of the one validator.
applyFix(i) ==
  LET fix == suggestions[i]
      rows == modified(rowsOf(fix.table), fix)
  IN  /\ clients' = IF fix.table = "clients" THEN rows ELSE clients
      /\ workers' = IF fix.table = "workers" THEN rows ELSE workers
      /\ tasks' = IF fix.table = "tasks" THEN rows ELSE tasks
      /\ errors' = validator(fix.table, rows).errors
      /\ suggestions' = without(suggestions, i)
      /\ UNCHANGED <<call, ret, uploading, uploadedFile, uploadError, files, modifying>>

\* handleApply(fix); the Apply buttons are disabled without data.
ApplyFix ==
  /\ dataLoaded
  /\ \E i \in 1..Len(suggestions) : applyFix(i)

\* handleDismiss(fix)
HandleDismiss ==
  /\ dataLoaded
  /\ \E i \in 1..Len(suggestions) : suggestions' = without(suggestions, i)
  /\ UNCHANGED <<clients, workers, tasks, call, ret, errors, uploading, uploadedFile,
                 uploadError, files, modifying>>

RECURSIVE applyAllBackwards(_, _, _, _)
\* Variant of applyAll that takes the fixes from the last to the first.
applyAllBackwards(rows, table, fixes, i) ==
  IF i > Len(fixes) THEN rows
  ELSE LET fix == fixes[Len(fixes) + 1 - i]
       IN  applyAllBackwards(IF fix.table = table THEN modified(rows, fix) ELSE rows,
                             table, fixes, i + 1)

RECURSIVE applyAll(_, _, _, _)
\* suggestions.forEach of handleApplyAll, for one table
applyAll(rows, table, fixes, i) ==
  IF i > Len(fixes) THEN rows
  ELSE applyAll(IF fixes[i].table = table THEN modified(rows, fixes[i]) ELSE rows,
                table, fixes, i + 1)

\* handleApplyAll; the button is rendered when there are suggestions.
HandleApplyAll ==
  /\ dataLoaded
  /\ suggestions # <<>>
  /\ clients' = applyAll(clients, "clients", suggestions, 1)
  /\ workers' = applyAll(workers, "workers", suggestions, 1)
  /\ tasks' = applyAll(tasks, "tasks", suggestions, 1)
  /\ errors' = validateClients(clients').errors \o validateWorkers(workers').errors
                 \o validateTasks(tasks').errors
  /\ suggestions' = <<>>
  /\ UNCHANGED <<call, ret, uploading, uploadedFile, uploadError, files, modifying>>

AppNext ==
  \/ HandleFileUpload
  \/ FileParsed
  \/ FileRejected
  \/ HandleRemoveFile
  \/ UpdateRow
  \/ HandleSubmit
  \/ ModificationReturned
  \/ ModificationFailed
  \/ FetchSuggestions
  \/ ApplyFix
  \/ HandleDismiss
  \/ HandleApplyAll

AppSpec == AppInit /\ [][AppNext]_vars

-----------------------------------------------------------------------------

(* EditableTable: how the grid keys a row and decides on a highlight       *)

\* getRowId={(row) => row.ClientID || row.WorkerID || row.TaskID || row.id}
getRowId(row) ==
  IF Truthy(rowGet(row, "ClientID")) THEN row.ClientID
  ELSE IF Truthy(rowGet(row, "WorkerID")) THEN row.WorkerID
  ELSE IF Truthy(rowGet(row, "TaskID")) THEN row.TaskID
  ELSE JSNum(row.id)

\* cellClassName: errors.find(e => e.table === tableName && e.row ===
\* params.id && e.field === params.field) is found.
cellClassName(errs, tableName, id, field) ==
  \E k \in 1..Len(errs) :
    errs[k].table = tableName /\ errs[k].row = id /\ errs[k].field = field

-----------------------------------------------------------------------------

(* Vocabulary of the properties                                            *)

EntityCalls == {"validateClients", "validateWorkers", "validateTasks"}

\* The table the last per-entity call was given, and its identifier field.
TableOf(c) ==
  CASE c = "validateClients" -> clients
    [] c = "validateWorkers" -> workers
    [] c = "validateTasks" -> tasks

IdOf(c, row) ==
  CASE c = "validateClients" -> row.ClientID
    [] c = "validateWorkers" -> row.WorkerID
    [] c = "validateTasks" -> row.TaskID

validateBy(c, rows) ==
  CASE c = "validateClients" -> validateClients(rows)
    [] c = "validateWorkers" -> validateWorkers(rows)
    [] c = "validateTasks" -> validateTasks(rows)

\* The error taxonomy, read off the message text.
IsRequired(e) ==
  e.message.text \in {"ClientID is required.", "WorkerID is required.", "TaskID is required."}
IsDuplicate(e) ==
  e.message.text \in {"Duplicate ClientID.", "Duplicate WorkerID.", "Duplicate TaskID."}
IsDomain(e) ==
  e.message.text \in {"Priority must be between 1 and 5.", "MaxLoad must be a number > 0.",
                      "Duration must be > 0."}
IsFormat(e) ==
  e.message.text \in {"Invalid JSON format.", "Must be a valid JSON array.",
                      "Must be a JSON array."}
IsOverload(e) == e.message.text = "Worker is overloaded: maxLoad > available slots"

Count(E, P(_)) == Cardinality({i \in 1..Len(E) : P(E[i])})

Prefix(T, k) == SubSeq(T, 1, k)

\* Number of rows of T whose identifier is v.
Occ(c, T, v) == Cardinality({i \in 1..Len(T) : IdOf(c, T[i]) = v})

\* Number of Duplicate errors of E keyed by v.
DupErrs(E, v) == Cardinality({i \in 1..Len(E) : IsDuplicate(E[i]) /\ E[i].row = v})

\* The errors of E that the scan of row i of T produced: the validators
\* append, so they are the part of E past what the rows before i produced.
RowErrors(c, T, E, i) ==
  SubSeq(E, Len(validateBy(c, Prefix(T, i - 1)).errors) + 1,
            Len(validateBy(c, Prefix(T, i)).errors))

\* An identifier that is not the empty cell: a number or a non-empty string.
NonEmptyId(v) == v.t = "number" \/ (v.t = "string" /\ v.s # <<>>)

-----------------------------------------------------------------------------
(* Properties                                                              *)

C2_EmptyIdKeyedByIndex ==
  call = "validateClients" =>
    \A i \in 1..Len(clients) :
      clients[i].ClientID = Str0 =>
        LET R == RowErrors(call, clients, ret.errors, i)
        IN  /\ \E j \in 1..Len(R) : IsRequired(R[j]) /\ R[j].row = JSNum(i - 1)
            /\ \A j \in 1..Len(R) : IsDomain(R[j]) => R[j].row = JSNum(i - 1)

\* C3: in every per-entity validator all errors of one row carry the same
\* row key, and for a row without identifier field that key is the row's
\* positional index.
C3_OneKeyPerRow ==
  call \in EntityCalls =>
    LET T == TableOf(call)
    IN  \A i \in 1..Len(T) :
          LET R == RowErrors(call, T, ret.errors, i)
          IN  /\ \A j, k \in 1..Len(R) : R[j].row = R[k].row
              /\ IdOf(call, T[i]) = Undefined =>
                   \A j \in 1..Len(R) : R[j].row = JSNum(i - 1)

\* The keys of a Record<string, number>.
ObjKeySet(obj) == {obj[i][1] : i \in 1..Len(obj)}

\* Number of errors of E whose message names the phase (or skill) p.
NamedErrs(E, p) == Cardinality({i \in 1..Len(E) : E[i].message.phase = p})

\* C4: validatePhaseSaturation emits exactly one error for each phase of the
\* demand mapping whose demand exceeds its supply (no supply entry: 0), with
\* row -1, table "tasks" and field "PreferredPhases", and no error for a
\* phase with demand <= supply or with supply but no demand.
C4_Saturation ==
  call = "validatePhaseSaturation" =>
    LET D == phaseDemandOf(tasks)
        S == phaseSupplyOf(workers)
        E == ret.errors
        supply(p) == IF ObjHas(S, p) THEN ObjGet(S, p) ELSE Fin(0)
    IN  /\ ~ret.threw
        /\ \A j \in 1..Len(E) :
             /\ E[j].row = JSNum(-1)
             /\ E[j].table = "tasks"
             /\ E[j].field = "PreferredPhases"
             /\ E[j].message.phase \in ObjKeySet(D)
             /\ E[j].message.x = ObjGet(D, E[j].message.phase)
             /\ E[j].message.y = supply(E[j].message.phase)
        /\ \A p \in ObjKeySet(D) \cup ObjKeySet(S) :
             NamedErrs(E, p) =
               (IF p \in ObjKeySet(D) /\ NumGt(ObjGet(D, p), supply(p)) THEN 1 ELSE 0)

\* The check ran on tables with an overbooked phase, a phase whose demand
\* equals its supply and a phase that has supply but no demand.
C4_Witness ==
  /\ call = "validatePhaseSaturation"
  /\ Len(ret.errors) >= 1
  /\ \E p \in ObjKeySet(phaseDemandOf(tasks)) :
       /\ ObjHas(phaseSupplyOf(workers), p)
       /\ ObjGet(phaseDemandOf(tasks), p) = ObjGet(phaseSupplyOf(workers), p)
  /\ ObjKeySet(phaseSupplyOf(workers)) \ ObjKeySet(phaseDemandOf(tasks)) # {}

\* The phase labels a cell lists, once each: the elements of the array the
\* cell parses to; nothing for a cell that is missing, unparseable or no array.
ListedPhases(cell) ==
  LET r == JSONParse(cell)
  IN  IF r.ok /\ isArray(r) THEN {r.items[i] : i \in 1..Len(r.items)} ELSE {}

RECURSIVE DurationSum(_, _, _)
\* Sum of Duration over the rows from i on whose PreferredPhases lists p.
DurationSum(rows, i, p) ==
  IF i > Len(rows) THEN Fin(0)
  ELSE IF p \in ListedPhases(rows[i].PreferredPhases)
  THEN NumAdd(Number(rows[i].Duration), DurationSum(rows, i + 1, p))
  ELSE DurationSum(rows, i + 1, p)

\* Number of workers whose AvailableSlots lists p.
WorkerCount(rows, p) ==
  Cardinality({i \in 1..Len(rows) : p \in ListedPhases(rows[i].AvailableSlots)})

\* C5: in validatePhaseSaturation the demand of a phase is the sum of
\* Duration over the tasks whose PreferredPhases lists it and the supply is
\* the number of workers whose AvailableSlots lists it, each row counted
\* once per phase; the reported demand and supply are these values.  (Stated
\* for tables whose Durations are all numbers, where the sum is defined.)
C5_CountedOncePerPhase ==
  (/\ call = "validatePhaseSaturation"
   /\ \A i \in 1..Len(tasks) : ~isNaN(Number(tasks[i].Duration))) =>
    LET D == phaseDemandOf(tasks)
        S == phaseSupplyOf(workers)
        E == ret.errors
    IN  /\ \A p \in ObjKeySet(D) : ObjGet(D, p) = DurationSum(tasks, 1, p)
        /\ \A p \in ObjKeySet(S) : ObjGet(S, p) = Fin(WorkerCount(workers, p))
        /\ \A j \in 1..Len(E) :
             /\ E[j].message.x = DurationSum(tasks, 1, E[j].message.phase)
             /\ E[j].message.y = Fin(WorkerCount(workers, E[j].message.phase))

\* The skill tokens of a cell: its text split on commas, each part trimmed
\* and lower-cased; a missing cell names no skill.
SkillTokensOf(cell) ==
  IF cell.t = "undefined" THEN <<>>
  ELSE LET parts == split(toString(cell), ",")
       IN  [i \in 1..Len(parts) |-> toLowerCase(Trim(parts[i]))]

SkillSetOf(rows) ==
  UNION {{SkillTokensOf(rows[i].Skills)[j] : j \in 1..Len(SkillTokensOf(rows[i].Skills))}
           : i \in 1..Len(rows)}

\* The errors of E that task i produced in validateSkillCoverage.
TaskErrors(E, i) ==
  SubSeq(E, Len(validateSkillCoverage(Prefix(tasks, i - 1), workers).errors) + 1,
            Len(validateSkillCoverage(Prefix(tasks, i), workers).errors))

\* C6: validateSkillCoverage returns, for every task and every skill token
\* of its RequiredSkills that no worker's Skills hold, one error per token
\* with table "tasks", field "RequiredSkills" and row = the TaskID, and no
\* error for a covered skill: each task gets its own errors.
C6_Coverage ==
  call = "validateSkillCoverage" =>
    LET E == ret.errors
        have == SkillSetOf(workers)
    IN  /\ ~ret.threw
        /\ \A i \in 1..Len(tasks) :
             LET req == SkillTokensOf(tasks[i].RequiredSkills)
                 mine == TaskErrors(E, i)
             IN  /\ Len(mine) = Cardinality({j \in 1..Len(req) : req[j] \notin have})
                 /\ \A j \in 1..Len(mine) :
                      /\ mine[j].table = "tasks"
                      /\ mine[j].field = "RequiredSkills"
                      /\ mine[j].row = tasks[i].TaskID
                 /\ \A j \in 1..Len(req) :
                      NamedErrs(mine, req[j]) =
                        (IF req[j] \in have THEN 0
                         ELSE Cardinality({k \in 1..Len(req) : req[k] = req[j]}))

\* C6 without the rows that make String.prototype.split unavailable.
C6_CoverageOfTexts ==
  (/\ \A i \in 1..Len(workers) : ~splitThrows(workers[i].Skills)
   /\ \A i \in 1..Len(tasks) : ~splitThrows(tasks[i].RequiredSkills)) => C6_Coverage

\* C7: validateWorkers emits exactly one Overload error for a row, on field
\* MaxLoadPerPhase and with the load and the slot count in its message, iff
\* AvailableSlots parses to an array, MaxLoadPerPhase parses to a number and
\* the load is greater than the array length; otherwise none, and a row's
\* errors are never more than one identity, one Domain and one Format or
\* Overload error.
C7_Overload ==
  call = "validateWorkers" =>
    \A i \in 1..Len(workers) :
      LET R == RowErrors(call, workers, ret.errors, i)
          slots == JSONParse(workers[i].AvailableSlots)
          load == Number(workers[i].MaxLoadPerPhase)
          over == /\ slots.ok
                  /\ isArray(slots)
                  /\ ~isNaN(load)
                  /\ NumGt(load, Fin(Len(slots.items)))
      IN  /\ Count(R, IsOverload) = (IF over THEN 1 ELSE 0)
          /\ \A j \in 1..Len(R) :
               IsOverload(R[j]) =>
                 /\ R[j].field = "MaxLoadPerPhase"
                 /\ R[j].message.x = load
                 /\ R[j].message.y = Fin(Len(slots.items))
          /\ Count(R, IsRequired) + Count(R, IsDuplicate) <= 1
          /\ Count(R, IsDomain) <= 1
          /\ Count(R, IsFormat) + Count(R, IsOverload) <= 1
          /\ \A j \in 1..Len(R) :
               IsRequired(R[j]) \/ IsDuplicate(R[j]) \/ IsDomain(R[j])
                 \/ IsFormat(R[j]) \/ IsOverload(R[j])

\* A worker with load 3 and slots [1,2] got its Overload error naming 3 and
\* 2, next to a worker whose load equals its two slots and got none.
C7_Witness ==
  /\ call = "validateWorkers"
  /\ \E i, k \in 1..Len(workers) :
       /\ Number(workers[i].MaxLoadPerPhase) = Fin(3)
       /\ workers[i].AvailableSlots = Slots12
       /\ \E j \in 1..Len(ret.errors) :
            /\ IsOverload(ret.errors[j])
            /\ ret.errors[j].message.x = Fin(3)
            /\ ret.errors[j].message.y = Fin(2)
       /\ Number(workers[k].MaxLoadPerPhase) = Fin(2)
       /\ workers[k].AvailableSlots = Slots12
       /\ Count(RowErrors(call, workers, ret.errors, k), IsOverload) = 0

\* The numeric field of a row and whether its value is in the table's bound.
NumericOf(c, row) ==
  CASE c = "validateClients" -> Number(row.PriorityLevel)
    [] c = "validateWorkers" -> Number(row.MaxLoadPerPhase)
    [] c = "validateTasks" -> Number(row.Duration)

InBound(c, x) ==
  CASE c = "validateClients" -> NumLe(Fin(1), x) /\ NumLe(x, Fin(5))
    [] c = "validateWorkers" -> NumGt(x, Fin(0))
    [] c = "validateTasks" -> NumGt(x, Fin(0))

\* C8: every row gets exactly one Domain error if its numeric field is not
\* a finite number or lies outside the bound, and none otherwise.
C8_Domain ==
  call \in EntityCalls =>
    LET T == TableOf(call)
    IN  \A i \in 1..Len(T) :
          Count(RowErrors(call, T, ret.errors, i), IsDomain) =
            (IF NumericOf(call, T[i]).k # "fin" \/ ~InBound(call, NumericOf(call, T[i]))
             THEN 1 ELSE 0)

\* C8 with "not a number" in the place of "not a finite number".
C8_DomainOfNumbers ==
  call \in EntityCalls =>
    LET T == TableOf(call)
    IN  \A i \in 1..Len(T) :
          Count(RowErrors(call, T, ret.errors, i), IsDomain) =
            (IF isNaN(NumericOf(call, T[i])) \/ ~InBound(call, NumericOf(call, T[i]))
             THEN 1 ELSE 0)

\* A cell that holds something: a number or a non-empty string.
NonEmptyCell(v) == v.t = "number" \/ (v.t = "string" /\ v.s # <<>>)

ArrayFieldOf(c, row) ==
  IF c = "validateWorkers" THEN row.AvailableSlots ELSE row.PreferredPhases

\* C9: a worker or task row gets exactly one Format error iff its array
\* field is non-empty and fails to parse or parses to a non-array; an empty
\* field and a field that parses to an array get none.
C9_ArrayFormat ==
  call \in {"validateWorkers", "validateTasks"} =>
    LET T == TableOf(call)
    IN  \A i \in 1..Len(T) :
          LET cell == ArrayFieldOf(call, T[i])
          IN  Count(RowErrors(call, T, ret.errors, i), IsFormat) =
                (IF NonEmptyCell(cell) /\ (~JSONParse(cell).ok \/ ~isArray(JSONParse(cell)))
                 THEN 1 ELSE 0)

\* C9 with "truthy" in the place of "non-empty".
C9_ArrayFormatOfTruthy ==
  call \in {"validateWorkers", "validateTasks"} =>
    LET T == TableOf(call)
    IN  \A i \in 1..Len(T) :
          LET cell == ArrayFieldOf(call, T[i])
          IN  Count(RowErrors(call, T, ret.errors, i), IsFormat) =
                (IF Truthy(cell) /\ (~JSONParse(cell).ok \/ ~isArray(JSONParse(cell)))
                 THEN 1 ELSE 0)

\* C10: a client row gets a Format error, keyed to AttributesJSON, iff the
\* field is non-empty and fails to parse; a field that parses to an object,
\* an array, a number, a string or null gets none.
C10_ClientsFormat ==
  call = "validateClients" =>
    \A i \in 1..Len(clients) :
      LET R == RowErrors(call, clients, ret.errors, i)
          cell == clients[i].AttributesJSON
      IN  /\ Count(R, IsFormat) =
               (IF NonEmptyCell(cell) /\ ~JSONParse(cell).ok THEN 1 ELSE 0)
          /\ \A j \in 1..Len(R) : IsFormat(R[j]) => R[j].field = "AttributesJSON"

\* Clients whose AttributesJSON parses to a non-array were validated
\* without a Format error.
C10_Witness ==
  /\ call = "validateClients"
  /\ \E i \in 1..Len(clients) :
       /\ JSONParse(clients[i].AttributesJSON).ok
       /\ JSONParse(clients[i].AttributesJSON).type \in {"null", "string", "object"}
       /\ Count(ret.errors, IsFormat) = 0

\* C11 as stated: none of the five validation functions throws, whatever
\* strings, numbers or absent values the rows hold: every call hands back
\* an error list.
C11_NeverThrows == call # NoCall => ~ret.threw

\* The errors of errs that belong to a table.
errorsOf(errs, table) == SelectSeq(errs, LAMBDA e : e.table = table)

InErrors(e, errs) == \E i \in 1..Len(errs) : errs[i] = e

\* C12 as stated: whenever a step of the application changes the tasks or
\* the workers table, every error that validatePhaseSaturation and
\* validateSkillCoverage report for the new tables is in the errors state
\* after the step.
C12_CrossChecksRerun ==
  [][(tasks' # tasks \/ workers' # workers) =>
       /\ \A k \in 1..Len(validatePhaseSaturation(tasks', workers').errors) :
            InErrors(validatePhaseSaturation(tasks', workers').errors[k], errors')
       /\ \A k \in 1..Len(validateSkillCoverage(tasks', workers').errors) :
            InErrors(validateSkillCoverage(tasks', workers').errors[k], errors')]_vars

\* C13 as stated: when handleFileUpload finishes without a failure, then for
\* every table its last workbook loaded the errors state holds, for that
\* table, exactly the validator output for the rows the table now holds.
C13_UploadReplaces ==
  [][(uploading /\ ~uploading' /\ uploadError' = "") =>
       \A table \in Head(files).has :
         errorsOf(errors', table) = validator(table, rowsOf(table)').errors]_vars

\* C14: an inline edit updateRow(table, id, field, value) leaves in the
\* errors state, for the edited table, exactly the validator output on the
\* updated rows, and for each other table the errors it had, in their
\* order; the rows of the other tables are unchanged.
C14_EditReplacesOwnTable ==
  [][\A table \in AllSheets :
       (\E edit \in Edits : \E i \in 1..Len(rowsOf(table)) :
          edit[1] = table /\ updateRow(table, rowsOf(table)[i].id, edit[2], edit[3]))
       => /\ errorsOf(errors', table) = validator(table, rowsOf(table)').errors
          /\ \A other \in AllSheets \ {table} :
               /\ errorsOf(errors', other) = errorsOf(errors, other)
               /\ rowsOf(other)' = rowsOf(other)]_vars

\* An edit has been committed on a table that had errors while another
\* table has errors too: the state holds errors of two tables, and those
\* of one of them are the validator output for its rows.
C14_Witness ==
  /\ errorsOf(errors, "clients") # <<>>
  /\ errorsOf(errors, "tasks") # <<>>
  /\ errorsOf(errors, "tasks") = validateTasks(tasks).errors
  /\ tasks # TasksHeavy

\* C15 as stated: applying one suggested fix to a table leaves the errors
\* that the errors state holds for the other two tables in place.
C15_FixKeepsOtherErrors ==
  [][\A i \in 1..Len(suggestions) :
       applyFix(i) =>
         \A other \in AllSheets \ {suggestions[i].table} :
           errorsOf(errors', other) = errorsOf(errors, other)]_vars

\* C16 as stated: when a natural-language modification changes the rows of
\* a table, the errors state afterwards holds, for that table, the validator
\* output on the modified rows.
C16_ModificationRevalidates ==
  [][ModificationReturned =>
       \A table \in AllSheets :
         rowsOf(table)' # rowsOf(table) =>
           errorsOf(errors', table) = validator(table, rowsOf(table)').errors]_vars

\* C17: an export button is enabled only if data is loaded and the errors
\* state is empty; with a non-empty errors state none of the three export
\* buttons is enabled.
C17_ExportGate ==
  /\ \A table \in AllSheets : exportEnabled(table) => dataLoaded /\ Len(errors) = 0
  /\ Len(errors) > 0 => \A table \in AllSheets : ~exportEnabled(table)

\* All three export buttons are enabled.
C17_Witness == \A table \in AllSheets : exportEnabled(table)

\* C18 as stated: in every state in which an export button is enabled,
\* validateClients, validateWorkers and validateTasks report no error for
\* the current tables.
C18_OnlyValidatedExported ==
  (\E table \in AllSheets : exportEnabled(table)) =>
    /\ validateClients(clients).errors = <<>>
    /\ validateWorkers(workers).errors = <<>>
    /\ validateTasks(tasks).errors = <<>>

\* The table name the errors of a per-entity validator carry.
NameOf(c) ==
  CASE c = "validateClients" -> "clients"
    [] c = "validateWorkers" -> "workers"
    [] c = "validateTasks" -> "tasks"

\* Every error the scan of row i produced is found by the grid on the cell
\* of row i (keyed by getRowId) and of the error's field.
ShownOnRow(c, T, E, i) ==
  \A k \in 1..Len(RowErrors(c, T, E, i)) :
    cellClassName(E, NameOf(c), getRowId(T[i]), RowErrors(c, T, E, i)[k].field)

\* C19 as stated: every error a per-entity validator emits for a row is
\* highlighted on that row's cell of the error's field, the grid keying the
\* row by its natural identifier if present and by its positional id
\* otherwise, also for rows whose identifier is missing or empty.
C19_ErrorsShownOnTheirRow ==
  call \in EntityCalls =>
    \A i \in 1..Len(TableOf(call)) : ShownOnRow(call, TableOf(call), ret.errors, i)

\* C19 for the rows whose identifier is truthy (the grid keys them by it).
C19_ShownOfTruthyIds ==
  call \in EntityCalls =>
    \A i \in 1..Len(TableOf(call)) :
      Truthy(IdOf(call, TableOf(call)[i])) =>
        ShownOnRow(call, TableOf(call), ret.errors, i)

AllCalls == EntityCalls \cup {"validatePhaseSaturation", "validateSkillCoverage"}

resultOn(c, cs, ws, ts) ==
  CASE c = "validateClients" -> validateClients(cs)
    [] c = "validateWorkers" -> validateWorkers(ws)
    [] c = "validateTasks" -> validateTasks(ts)
    [] c = "validatePhaseSaturation" -> validatePhaseSaturation(ts, ws)
    [] c = "validateSkillCoverage" -> validateSkillCoverage(ts, ws)

CheckOrder(e) ==
  IF IsRequired(e) \/ IsDuplicate(e) THEN 1
  ELSE IF IsDomain(e) THEN 2
  ELSE 3

\* The rows of T whose identifier is v.
RowsWithId(c, T, v) == {i \in 1..Len(T) : IdOf(c, T[i]) = v}

\* Every row of T has an identifier cell and no two rows carry the same.
DistinctIds(c, T) ==
  \A i, j \in 1..Len(T) :
    IdOf(c, T[i]).t # "undefined" /\ (IdOf(c, T[i]) = IdOf(c, T[j]) => i = j)

\* C22: the errors a per-entity validator returns are in table scan order
\* and, within a row, in check order.  The errors the scan of row i produced
\* carry the identifier of row i, when it has one, as their key and are in
\* the order identity
\* (Required or Duplicate), numeric Domain, structural Format or Overload,
\* with at most one of each; and when the identifiers tell the rows apart,
\* an error keyed by an earlier row never comes after an error keyed by a
\* later row.
C22_ScanThenCheckOrder ==
  call \in EntityCalls =>
    LET T == TableOf(call)
        E == ret.errors
    IN  /\ \A i \in 1..Len(T) :
             LET R == RowErrors(call, T, E, i)
             IN  /\ IdOf(call, T[i]).t # "undefined" =>
                       \A p \in 1..Len(R) : R[p].row = IdOf(call, T[i])
                 /\ \A p, q \in 1..Len(R) : p < q => CheckOrder(R[p]) < CheckOrder(R[q])
        /\ DistinctIds(call, T) =>
             \A p, q \in 1..Len(E) :
               p < q => \A i \in RowsWithId(call, T, E[p].row) :
                          \A j \in RowsWithId(call, T, E[q].row) : i <= j

\* A table of two rows told apart by their identifiers, the first failing all
\* three checks and the second two of them.
C22_Witness ==
  /\ call \in EntityCalls
  /\ Len(TableOf(call)) = 2
  /\ DistinctIds(call, TableOf(call))
  /\ Len(RowErrors(call, TableOf(call), ret.errors, 1)) = 3
  /\ Len(RowErrors(call, TableOf(call), ret.errors, 2)) = 2

\* The row with another value in its identifier cell, or in its numeric cell.
WithId(c, row, v) ==
  CASE c = "validateClients" -> [row EXCEPT !.ClientID = v]
    [] c = "validateWorkers" -> [row EXCEPT !.WorkerID = v]
    [] c = "validateTasks" -> [row EXCEPT !.TaskID = v]

WithNumber(c, row, v) ==
  CASE c = "validateClients" -> [row EXCEPT !.PriorityLevel = v]
    [] c = "validateWorkers" -> [row EXCEPT !.MaxLoadPerPhase = v]
    [] c = "validateTasks" -> [row EXCEPT !.Duration = v]

\* What the errors of E say, apart from the row they are keyed by.
Said(E) == [p \in 1..Len(E) |-> <<E[p].field, E[p].message>>]

IsIdentity(e) == IsRequired(e) \/ IsDuplicate(e)
NotIdentity(e) == ~IsIdentity(e)

\* C23: the checks of a per-entity validator do not suppress one another.
\* A row that fails the identity check gets, after its Required or Duplicate
\* error, the very Domain, Format and Overload errors the same row gets when
\* it stands alone with a good identifier; and a row that fails the numeric
\* check gets the very Format error it gets with a good number in that cell.
C23_ChecksIndependent ==
  call \in EntityCalls =>
    LET T == TableOf(call)
        E == ret.errors
    IN  \A i \in 1..Len(T) :
          LET R == RowErrors(call, T, E, i)
              alone == validateBy(call, <<WithId(call, T[i], StrM)>>).errors
              mended == validateBy(call, <<WithNumber(call, T[i], JSNum(1))>>).errors
          IN  /\ (\E p \in 1..Len(R) : IsIdentity(R[p])) =>
                   Said(SelectSeq(R, NotIdentity)) = Said(alone)
              /\ (\E p \in 1..Len(R) : IsDomain(R[p])) =>
                   Said(SelectSeq(R, IsFormat)) = Said(SelectSeq(mended, IsFormat))

\* Two workers without identifier: the first also gets an Overload error, the
\* second a Domain and a Format error.
C23_Witness ==
  /\ call = "validateWorkers"
  /\ Len(workers) = 2
  /\ LET R1 == RowErrors(call, workers, ret.errors, 1)
         R2 == RowErrors(call, workers, ret.errors, 2)
     IN  /\ Len(R1) = 2 /\ IsRequired(R1[1]) /\ IsOverload(R1[2])
         /\ Len(R2) = 3 /\ IsRequired(R2[1]) /\ IsDomain(R2[2]) /\ IsFormat(R2[3])

\* The phases, or the tasks and skills, the errors of E are about.
PhasesOf(E) == {E[j].message.phase : j \in 1..Len(E)}
RowSkillsOf(E) == {<<E[j].row, E[j].message.phase>> : j \in 1..Len(E)}

\* No cell of the column lists a phase twice.
ListsOnce(rows, Cell(_)) ==
  \A i \in 1..Len(rows) :
    LET r == JSONParse(Cell(rows[i]))
    IN  r.ok /\ isArray(r) => \A j, k \in 1..Len(r.items) : r.items[j] = r.items[k] => j = k

\* C24 as stated: adding a worker never adds an error to a cross-entity check.
\* For each worker of the table, every Saturation error and every Coverage
\* error reported with the table is also reported with the table without
\* that worker, and a phase that is saturated without the worker is no
\* longer reported with the worker exactly when the number of workers that
\* list the phase has reached the summed Duration of the tasks that list it.
C24_AddingWorker ==
  \A k \in 1..Len(workers) :
    LET smaller == without(workers, k)
    IN  /\ call = "validatePhaseSaturation" =>
             LET before == PhasesOf(validatePhaseSaturation(tasks, smaller).errors)
                 after == PhasesOf(ret.errors)
             IN  /\ after \subseteq before
                 /\ \A p \in before :
                      p \notin after <=>
                        ~NumGt(DurationSum(tasks, 1, p), Fin(WorkerCount(workers, p)))
        /\ call = "validateSkillCoverage" =>
             RowSkillsOf(ret.errors)
               \subseteq RowSkillsOf(validateSkillCoverage(tasks, smaller).errors)

\* C24 for tables in which no cell lists a phase twice and every Duration is
\* a number.
C24_AddingWorkerListedOnce ==
  (/\ \A i \in 1..Len(tasks) : ~isNaN(Number(tasks[i].Duration))
   /\ ListsOnce(tasks, LAMBDA row : row.PreferredPhases)
   /\ ListsOnce(workers, LAMBDA row : row.AvailableSlots)) => C24_AddingWorker

\* C30 as stated: a task whose RequiredSkills is the empty string produces no
\* Coverage error from validateSkillCoverage, whatever the workers table holds.
C30_EmptyRequiredSkills ==
  call = "validateSkillCoverage" =>
    \A i \in 1..Len(tasks) :
      tasks[i].RequiredSkills = Str0 => TaskErrors(ret.errors, i) = <<>>

\* C25: handleRemoveFile resets the application.  The Remove button is there
\* when a file is uploaded and no upload is under way; the step that clears
\* uploadedFile from such a state leaves clients, workers and tasks empty,
\* the errors state empty and uploadError null, so dataLoaded is false and
\* the next upload starts from no error.
C25_RemoveResets ==
  [][(uploadedFile # "" /\ ~uploading /\ uploadedFile' = "") =>
       /\ clients' = <<>>
       /\ workers' = <<>>
       /\ tasks' = <<>>
       /\ errors' = <<>>
       /\ uploadError' = ""
       /\ ~dataLoaded']_vars

\* The file has been removed after suggestions had been fetched for its
\* data: nothing but handleRemoveFile leaves suggestions behind with no
\* data, no file and no upload error.
C25_Witness ==
  /\ suggestions # <<>>
  /\ uploadedFile = ""
  /\ uploadError = ""
  /\ ~uploading
  /\ ~dataLoaded
  /\ errors = <<>>

\* C26 as stated (its part on a failed upload): when parsing a file fails,
\* handleFileUpload ends with uploading false, clients, workers and tasks
\* empty, uploadedFile null and uploadError set, and the errors state holds
\* no error of the three discarded tables.
C26_FailedUploadDiscards ==
  [][(uploading /\ uploadError' # "") =>
       /\ ~uploading'
       /\ clients' = <<>>
       /\ workers' = <<>>
       /\ tasks' = <<>>
       /\ uploadedFile' = ""
       /\ \A t \in AllSheets : errorsOf(errors', t) = <<>>]_vars

\* C26 without its last part: the failed upload ends with uploading false,
\* the tables empty, uploadedFile null and uploadError set.
C26_FailedUploadEnds ==
  [][(uploading /\ uploadError' # "") =>
       /\ ~uploading'
       /\ clients' = <<>>
       /\ workers' = <<>>
       /\ tasks' = <<>>
       /\ uploadedFile' = ""]_vars

\* The rows of a table as the pending handleSubmit saw them.
snapshotOf(table) ==
  CASE table = "clients" -> modifying.clients
    [] table = "workers" -> modifying.workers
    [] table = "tasks" -> modifying.tasks

\* The table holds the rows the pending request saw, but for cell edits.
OnlyEdited(c, t) ==
  /\ Len(rowsOf(t)) = Len(snapshotOf(t))
  /\ \A i \in 1..Len(rowsOf(t)) : IdOf(c, rowsOf(t)[i]) = IdOf(c, snapshotOf(t)[i])

\* C29 as stated: an inline edit committed while a natural-language
\* modification waits for the remote service is not lost.  When the request
\* ends and the table still holds the rows it was sent for, but for cells
\* edited in the meantime, every row that the modification does not match
\* is the row as it was just before, edited values included.
C29_EditSurvivesModification ==
  [][(modifying.loading /\ ~modifying'.loading) =>
       \A c \in EntityCalls :
         LET t == CASE c = "validateClients" -> "clients"
                    [] c = "validateWorkers" -> "workers"
                    [] c = "validateTasks" -> "tasks"
         IN  OnlyEdited(c, t) =>
               /\ Len(rowsOf(t)') = Len(rowsOf(t))
               /\ \A i \in 1..Len(rowsOf(t)) :
                    rowsOf(t)'[i] # rowsOf(t)[i] =>
                      \E mod \in Modifications :
                        /\ mod.table = t
                        /\ \/ matches(rowsOf(t)[i], mod.filter)
                           \/ matches(snapshotOf(t)[i], mod.filter)]_vars

RECURSIVE Applied(_, _, _, _)
\* The rows of a table once the first n fixes of the list have been applied
\* one after the other, each to the rows the one before it produced.
Applied(rows, table, fixes, n) ==
  IF n = 0 THEN rows
  ELSE LET before == Applied(rows, table, fixes, n - 1)
       IN  IF fixes[n].table = table THEN modified(before, fixes[n]) ELSE before

\* C28: handleApplyAll applies the pending fixes in list order, each to the
\* rows the fixes before it produced; afterwards the errors state is
\* validateClients of the new clients, then validateWorkers of the new
\* workers, then validateTasks of the new tasks, and no suggestion is left.
C28_ApplyAllInOrder ==
  [][(suggestions' # suggestions /\ HandleApplyAll) =>
       /\ suggestions' = <<>>
       /\ clients' = Applied(clients, "clients", suggestions, Len(suggestions))
       /\ workers' = Applied(workers, "workers", suggestions, Len(suggestions))
       /\ tasks' = Applied(tasks, "tasks", suggestions, Len(suggestions))
       /\ errors' = validateClients(clients').errors \o validateWorkers(workers').errors
                      \o validateTasks(tasks').errors]_vars

\* All fixes have been applied to the three-sheet workbook, the fix that
\* sets the priority of client a to 0 last: the only error is the Domain
\* error of that client.
C28_Witness ==
  /\ suggestions = <<>>
  /\ clients = modified(ClientsGood, Undo)
  /\ workers = WorkersGood
  /\ tasks = TasksHeavy
  /\ Len(errors) = 1
  /\ IsDomain(errors[1])
  /\ errors[1].table = "clients"

====
